---------------------------- MODULE Spec2Model ----------------------------
(***************************************************************************)
(* Pack registry and tool dispatch of server.py.                           *)
(*                                                                         *)
(* Python strings are modelled as sequences of one-character strings, so   *)
(* that sanitising, formatting and parsing work on characters as the code  *)
(* does.  TLA+ strings are used only as tags.                              *)
(***************************************************************************)
EXTENDS Naturals, Sequences, FiniteSets, TLC

VARIABLES
    disk,        \* the packs directory as the latest load() found it
    packs,       \* PackRegistry.packs: insertion-ordered dict, as a sequence of Pack
    tools,       \* PackRegistry.tools: dict tool name -> PackTool
    load_result, \* outcome of the latest load(): "none", "ok" or "error"
    serving,     \* main() got past registry.load() and serves calls
    call,        \* the call being handled by handle_call_tool or handle_list_tools
    loader,      \* a load() that runs beside the calls: where it is
    pure_in,     \* input of the pure function under check
    pure_out     \* its result

vars == <<disk, packs, tools, load_result, serving, call, loader, pure_in, pure_out>>

registry_vars == <<disk, packs, tools, load_result, serving, call, loader>>

pure_vars == <<pure_in, pure_out>>

-----------------------------------------------------------------------------
(* Bounds *)

\* longest pack identifier drawn for the identifier codec
MaxIdLen == 3

\* longest "required" list of a drawn schema
MaxRequired == 2

\* longest list of required paths drawn for the context inspector
MaxPaths == 3

\* reloads that run beside the calls
MaxReloads == 1

\* most packs registered when a tool name is decoded as a function
MaxPackIds == 2

-----------------------------------------------------------------------------
(* Characters and strings *)

Lower == {"a","b","c","d","e","f","g","h","i","j","k","l","m",
          "n","o","p","q","r","s","t","u","v","w","x","y","z"}

Upper == {"A","B","C","D","E","F","G","H","I","J","K","L","M",
          "N","O","P","Q","R","S","T","U","V","W","X","Y","Z"}

Digits == {"0","1","2","3","4","5","6","7","8","9"}

\* the character class [a-zA-Z0-9_-] of the two regular expressions
TokenChars == Lower \cup Upper \cup Digits \cup {"_", "-"}

\* characters the pack identifiers of the model are made of
IdAlphabet == {"a", "b", ".", "_", "-", "!"}

StringsUpTo(alphabet, n) == UNION {[1..m -> alphabet] : m \in 0..n}

StartsWith(s, pre) ==
    /\ Len(s) >= Len(pre)
    /\ SubSeq(s, 1, Len(pre)) = pre

EndsWith(s, suf) ==
    /\ Len(s) >= Len(suf)
    /\ SubSeq(s, Len(s) - Len(suf) + 1, Len(s)) = suf

\* str.replace(old, new) for one-character old and new
StrReplaceChar(s, old, new) ==
    [i \in 1..Len(s) |-> IF s[i] = old THEN new ELSE s[i]]

\* re.sub of a character class repeated (+) by rep: every maximal run of
\* characters of the class becomes one rep.  negated: the class is [^chars].
InClass(c, chars, negated) == (c \in chars) # negated

RECURSIVE ReSubRuns(_, _, _, _)
ReSubRuns(s, chars, negated, rep) ==
    IF s = <<>> THEN <<>>
    ELSE IF ~InClass(Head(s), chars, negated)
         THEN <<Head(s)>> \o ReSubRuns(Tail(s), chars, negated, rep)
    ELSE IF Len(s) >= 2 /\ InClass(s[2], chars, negated)
         THEN ReSubRuns(Tail(s), chars, negated, rep)
    ELSE <<rep>> \o ReSubRuns(Tail(s), chars, negated, rep)

RECURSIVE LStrip(_, _)
LStrip(s, ch) ==
    IF s # <<>> /\ Head(s) = ch THEN LStrip(Tail(s), ch) ELSE s

RECURSIVE RStrip(_, _)
RStrip(s, ch) ==
    IF s # <<>> /\ s[Len(s)] = ch THEN RStrip(SubSeq(s, 1, Len(s) - 1), ch) ELSE s

\* str.strip(ch)
StrStrip(s, ch) == RStrip(LStrip(s, ch), ch)

-----------------------------------------------------------------------------
(* Identifier codec *)

describe == <<"d","e","s","c","r","i","b","e">>

requirements == <<"r","e","q","u","i","r","e","m","e","n","t","s">>

plan == <<"p","l","a","n">>

execute == <<"e","x","e","c","u","t","e">>

validate == <<"v","a","l","i","d","a","t","e">>

\* the five operation kinds
Methods == {describe, requirements, plan, execute, validate}

PackPrefix == <<"p","a","c","k","_","_">>

Separator == <<"_","_">>

Newline == "\n"

sanitize_tool_token(value) ==
    LET dots == StrReplaceChar(value, ".", "_")
        safe == ReSubRuns(dots, TokenChars, TRUE, "_")
        collapsed == ReSubRuns(safe, {"_"}, FALSE, "_")
    IN  StrStrip(collapsed, "_")

make_tool_name(pack_id, method) ==
    PackPrefix \o sanitize_tool_token(pack_id) \o Separator \o method

\* re.match of ^pack__(?P<spack>[a-zA-Z0-9_-]+)__(?P<method>describe|...|validate)$
\* the set of <<spack, method>> the pattern can bind (empty: no match).  Python's $
\* matches at the end of the string and also just before a final line break.
ToolNameMatches(tool_name) ==
    LET ends == {tool_name} \cup
                (IF tool_name # <<>> /\ tool_name[Len(tool_name)] = Newline
                 THEN {SubSeq(tool_name, 1, Len(tool_name) - 1)} ELSE {})
    IN  {<<SubSeq(body, Len(PackPrefix) + 1, Len(body) - Len(method) - Len(Separator)), method>> :
            <<body, method>> \in
              {bm \in ends \X Methods :
                 /\ StartsWith(bm[1], PackPrefix)
                 /\ EndsWith(bm[1], Separator \o bm[2])
                 /\ Len(bm[1]) > Len(PackPrefix) + Len(Separator) + Len(bm[2])
                 /\ \A i \in (Len(PackPrefix) + 1)..(Len(bm[1]) - Len(bm[2]) - Len(Separator)) :
                        bm[1][i] \in TokenChars}}

\* Optional[Tuple[str, str]]: None is the empty tuple
None == <<>>

\* first index of seq satisfying the scan of parse_pack_tool_name, 0 when none
FirstMatch(pack_ids, spack) ==
    LET hits == {i \in 1..Len(pack_ids) : sanitize_tool_token(pack_ids[i]) = spack}
    IN  IF hits = {} THEN 0 ELSE CHOOSE i \in hits : \A j \in hits : i <= j

\* parse_pack_tool_name over the keys of registry.packs, in dict order
parse_pack_tool_name(tool_name, pack_ids) ==
    LET m == ToolNameMatches(tool_name)
    IN  IF m = {} THEN None
        ELSE LET sm == CHOOSE x \in m : TRUE
                 i == FirstMatch(pack_ids, sm[1])
             IN  IF i = 0 THEN None ELSE <<pack_ids[i], sm[2]>>

-----------------------------------------------------------------------------
(* JSON values: null, a scalar (number, string or boolean), or a dict with   *)
(* string keys.                                                              *)

JNull == [t |-> "null"]

JScalar == [t |-> "scalar"]

JDict(d) == [t |-> "dict", d |-> d]

\* isinstance(v, dict)
IsDict(v) == v.t = "dict"

\* the empty mapping
EmptyMap == [k \in {} |-> JNull]

\* all mappings from a subset of keys to values
PartialMaps(keys, values) == UNION {[ks -> values] : ks \in SUBSET keys}

\* A JSON schema document: isdict is FALSE for a document that is not a JSON
\* object; type is "absent" when the schema has no "type" entry; required and
\* properties are what schema.get(..., default) or default yields.
NotADict == [isdict |-> FALSE]

Schema(type, required, properties) ==
    [isdict |-> TRUE, type |-> type, required |-> required, properties |-> properties]

-----------------------------------------------------------------------------
(* Schema requirement extractor and context inspector *)

Root == <<"$">>

Dot == "."

RECURSIVE dotted_required_paths(_, _)
RECURSIVE RequiredLoop(_, _, _)

\* variant: all keys of the required list first, nested paths after them
RECURSIVE NestedAfter(_, _, _)
NestedAfter(schema, prefix, i) ==
    IF i > Len(schema.required) THEN <<>>
    ELSE LET key == schema.required[i]
             path == prefix \o <<Dot>> \o key
         IN  (IF key \in DOMAIN schema.properties /\ schema.properties[key].isdict
              THEN dotted_required_paths(schema.properties[key], path)
              ELSE <<>>)
             \o NestedAfter(schema, prefix, i + 1)

RequiredLoopSiblingsFirst(schema, prefix, i) ==
    [j \in 1..(Len(schema.required) - (i - 1)) |->
        prefix \o <<Dot>> \o schema.required[j + (i - 1)]]
    \o NestedAfter(schema, prefix, i)

\* the for loop of dotted_required_paths from the i-th required key on
RequiredLoop(schema, prefix, i) ==
    IF i > Len(schema.required) THEN <<>>
    ELSE LET key == schema.required[i]
             path == prefix \o <<Dot>> \o key
             has == key \in DOMAIN schema.properties
         IN  <<path>>
             \o (IF has /\ schema.properties[key].isdict
                 THEN dotted_required_paths(schema.properties[key], path)
                 ELSE <<>>)
             \o RequiredLoop(schema, prefix, i + 1)

\* variant: no check of the schema's type
dotted_required_paths_any_type(schema, prefix) ==
    RequiredLoop(schema, prefix, 1)

dotted_required_paths(schema, prefix) ==
    IF schema.type # "object" THEN <<>>
    ELSE RequiredLoop(schema, prefix, 1)

\* str.split(sep) for a one-character separator
RECURSIVE StrSplit(_, _)
StrSplit(s, sep) ==
    IF \A i \in 1..Len(s) : s[i] # sep THEN <<s>>
    ELSE LET i == CHOOSE j \in 1..Len(s) : s[j] = sep /\ \A k \in 1..(j - 1) : s[k] # sep
         IN  <<SubSeq(s, 1, i - 1)>> \o StrSplit(SubSeq(s, i + 1, Len(s)), sep)

\* the for loop of get_by_dotted_path from the i-th part on
RECURSIVE WalkParts(_, _, _)
WalkParts(cur, parts, i) ==
    IF i > Len(parts) THEN <<TRUE, cur>>
    ELSE IF IsDict(cur) /\ parts[i] \in DOMAIN cur.d
         THEN WalkParts(cur.d[parts[i]], parts, i + 1)
         ELSE <<FALSE, JNull>>

\* returns <<ok, value>>
get_by_dotted_path(obj, dotted) ==
    IF ~StartsWith(dotted, Root \o <<Dot>>) THEN <<FALSE, JNull>>
    ELSE WalkParts(obj, StrSplit(SubSeq(dotted, 3, Len(dotted)), Dot), 1)

\* variant: a null leaf satisfies the requirement
RECURSIVE MissingLoopNullOk(_, _, _)
MissingLoopNullOk(context, required_paths, i) ==
    IF i > Len(required_paths) THEN <<>>
    ELSE LET r == get_by_dotted_path(context, required_paths[i])
         IN  (IF ~r[1] THEN <<required_paths[i]>> ELSE <<>>)
             \o MissingLoopNullOk(context, required_paths, i + 1)

\* the for loop of missing_required_fields from the i-th path on
RECURSIVE MissingLoop(_, _, _)
MissingLoop(context, required_paths, i) ==
    IF i > Len(required_paths) THEN <<>>
    ELSE LET r == get_by_dotted_path(context, required_paths[i])
         IN  (IF ~r[1] \/ r[2].t = "null" THEN <<required_paths[i]>> ELSE <<>>)
             \o MissingLoop(context, required_paths, i + 1)

missing_required_fields(context, required_paths) ==
    MissingLoop(context, required_paths, 1)

-----------------------------------------------------------------------------
(* Pack and PackRegistry *)

\* the six files load() requires of a pack directory, in the order it checks them
RequiredFiles ==
    <<"schemas/context.schema.json", "schemas/output.schema.json",
      "schemas/events.schema.json", "prompts/plan.md", "prompts/execute.md",
      "prompts/validate.md">>

AllFiles == {RequiredFiles[i] : i \in 1..Len(RequiredFiles)}

\* An entry of the packs directory.  has_manifest is FALSE for an entry that is
\* not a directory or holds no pack.json.  The position of an entry in the
\* sorted listing stands for the directory's name.
NoPackDir == [has_manifest |-> FALSE]

PackDir(pack_id, context_schema, files) ==
    [has_manifest |-> TRUE, pack_id |-> pack_id,
     context_schema |-> context_schema, files |-> files]

\* Pack(...): root is the directory the pack was read from; the manifest
\* entries other than pack_id, the output and events schemas and the prompts
\* are the content of that directory; loaded names the files of the directory
\* whose content the Pack holds.
Pack(root, entry) ==
    [root |-> root, pack_id |-> entry.pack_id, context_schema |-> entry.context_schema,
     loaded |-> entry.files \cap AllFiles]

\* Pack.required_paths
required_paths(pack) == dotted_required_paths(pack.context_schema, Root)

\* Pack.tool_name
tool_name(pack, method) == make_tool_name(pack.pack_id, method)

\* keys of the insertion-ordered dict self.packs, in order
PackIds(ps) == [i \in 1..Len(ps) |-> ps[i].pack_id]

\* self.packs[pack.pack_id] = pack: a key already present keeps its position
PacksSet(ps, pack) ==
    IF \E i \in 1..Len(ps) : ps[i].pack_id = pack.pack_id
    THEN [i \in 1..Len(ps) |-> IF ps[i].pack_id = pack.pack_id THEN pack ELSE ps[i]]
    ELSE Append(ps, pack)

\* pack_id in self.packs
PacksHas(ps, pack_id) == \E i \in 1..Len(ps) : ps[i].pack_id = pack_id

\* self.packs.get(pack_id), for a key that is present
PacksGet(ps, pack_id) == ps[CHOOSE i \in 1..Len(ps) : ps[i].pack_id = pack_id]

\* variant: the last of the required files is not looked for
FirstMissingFileButLast(entry) ==
    LET lacking == {i \in 1..(Len(RequiredFiles) - 1) : RequiredFiles[i] \notin entry.files}
    IN  IF lacking = {} THEN ""
        ELSE RequiredFiles[CHOOSE i \in lacking : \A j \in lacking : i <= j]

\* the first required file, in checking order, that the directory lacks; "" if none
FirstMissingFile(entry) ==
    LET lacking == {i \in 1..Len(RequiredFiles) : RequiredFiles[i] \notin entry.files}
    IN  IF lacking = {} THEN ""
        ELSE RequiredFiles[CHOOSE i \in lacking : \A j \in lacking : i <= j]

LoadOk == [status |-> "ok", root |-> 0, file |-> ""]

NotLoaded == [status |-> "none", root |-> 0, file |-> ""]

\* load() has not returned yet
LoadRunning == [status |-> "running", root |-> 0, file |-> ""]

LoadError(error, root, file) == [status |-> error, root |-> root, file |-> file]

\* the for loop of load() from the i-th directory entry on: the pack map it
\* leaves and how it ended
RECURSIVE LoadLoop(_, _, _)
LoadLoop(ps, dirs, i) ==
    IF i > Len(dirs) THEN [packs |-> ps, result |-> LoadOk]
    ELSE IF ~dirs[i].has_manifest THEN LoadLoop(ps, dirs, i + 1)
    ELSE IF FirstMissingFile(dirs[i]) # ""
         THEN [packs |-> ps,
               result |-> LoadError("missing_file", i, FirstMissingFile(dirs[i]))]
    ELSE LoadLoop(PacksSet(ps, Pack(i, dirs[i])), dirs, i + 1)

\* the input schema of "describe" and "requirements"
NoArgumentsSchema == Schema("object", <<>>, EmptyMap)

kcontext == <<"c","o","n","t","e","x","t">>

koutputs == <<"o","u","t","p","u","t","s">>

\* the pack's output.schema.json: opaque content of its directory
OutputSchemaOf(pack) == Schema("object", <<>>, EmptyMap)

input_schema(pack, method) ==
    IF method \in {describe, requirements} THEN NoArgumentsSchema
    ELSE IF method \in {plan, execute} THEN pack.context_schema
    ELSE Schema("object", <<kcontext, koutputs>>,
                (kcontext :> pack.context_schema) @@ (koutputs :> OutputSchemaOf(pack)))

\* PackTool(...): root stands for the description and the output schema, which
\* are made from the manifest and files of the pack's directory
PackTool(pack, method) ==
    [pack_id |-> pack.pack_id, method |-> method, name |-> tool_name(pack, method),
     root |-> pack.root, input_schema |-> input_schema(pack, method)]

\* self.tools[name] = tool
ToolsSet(ts, name, tool) == (name :> tool) @@ ts

MethodOrder == <<describe, requirements, plan, execute, validate>>

\* the five assignments of one iteration of _build_tools, from the m-th on
RECURSIVE BuildPackTools(_, _, _)
BuildPackTools(ts, pack, m) ==
    IF m > Len(MethodOrder) THEN ts
    ELSE BuildPackTools(ToolsSet(ts, tool_name(pack, MethodOrder[m]),
                                 PackTool(pack, MethodOrder[m])),
                        pack, m + 1)

\* the for loop of _build_tools from the i-th pack on
RECURSIVE BuildToolsLoop(_, _, _)
BuildToolsLoop(ts, ps, i) ==
    IF i > Len(ps) THEN ts
    ELSE BuildToolsLoop(BuildPackTools(ts, ps[i], 1), ps, i + 1)

\* _build_tools: clear, then rebuild from self.packs
build_tools(ps) == BuildToolsLoop(EmptyMap, ps, 1)

\* list_tools: the descriptors; sorting them by name does not change the set
list_tools(ts) == {ts[n] : n \in DOMAIN ts}

-----------------------------------------------------------------------------
(* Tool calls *)

\* The outcome of a call: state is "responded" or "fault"; provider lists the
\* invocations of the pack operation (the artifact generation behind plan,
\* execute and validate) the call made, each with what it returned or raised.
NoResponse == [none |-> TRUE]

Fault(error, provider) ==
    [state |-> "fault", error |-> error, response |-> NoResponse, provider |-> provider]

Responded(response, provider) ==
    [state |-> "responded", error |-> "", response |-> response, provider |-> provider]

Invocation(pack, method, arguments, returned, result) ==
    [pack_id |-> pack.pack_id, root |-> pack.root, method |-> method,
     arguments |-> arguments, returned |-> returned, result |-> result]

\* the outcome of a call that is an invocation of the provider and nothing else
Routed(inv) ==
    IF inv.returned THEN Responded(inv.result, <<inv>>) ELSE Fault(inv.result, <<inv>>)

kthread_colors == <<"t","h","r","e","a","d","_","c","o","l","o","r","s">>

kfunnel_stage == <<"f","u","n","n","e","l","_","s","t","a","g","e">>

kproduct == <<"p","r","o","d","u","c","t">>

kfunnel == <<"f","u","n","n","e","l">>

kinstrumentation == <<"i","n","s","t","r","u","m","e","n","t","a","t","i","o","n">>

\* dict.get(key) of a JSON dict: JNull when the key is absent
DictGet(v, key) == IF key \in DOMAIN v.d THEN v.d[key] ELSE JNull

\* plan_steps_template: six fixed steps; the second names the funnel stage of
\* the context, when thread_colors is a dict that has one
plan_steps_template(context) ==
    LET colors == DictGet(context, kthread_colors)
        stage == IF IsDict(colors) THEN DictGet(colors, kfunnel_stage) ELSE JNull
    IN  [steps |-> 6,
         focus_stage |-> IF stage.t = "scalar" \/ (IsDict(stage) /\ DOMAIN stage.d # {})
                         THEN "given" ELSE "unspecified"]

\* the plan branch after the missing-fields check: the plan generated
PlanBody(pack, arguments) ==
    Invocation(pack, plan, arguments, TRUE,
               [needs_context |-> FALSE, missing_fields |-> <<>>, assumptions |-> <<>>,
                plan_steps |-> plan_steps_template(arguments)])

\* execute_artifacts after the missing-fields check: the artifacts generated.
\* context.get(k, {}) or {} is then used as a dict: a scalar there (a non-empty
\* string, a number) makes .get raise AttributeError.
ExecuteBody(pack, context) ==
    IF \E k \in {kproduct, kfunnel, kinstrumentation} : DictGet(context, k).t = "scalar"
    THEN Invocation(pack, execute, context, FALSE, "AttributeError")
    ELSE Invocation(pack, execute, context, TRUE,
                    [needs_context |-> FALSE, missing_fields |-> <<>>,
                     artifacts |-> "generated"])

\* variant: the test of the missing fields is inverted
execute_artifacts_inverted(pack, context) ==
    LET required == required_paths(pack)
        missing == missing_required_fields(context, required)
    IN  IF missing = <<>>
        THEN Responded([needs_context |-> TRUE, missing_fields |-> missing,
                        assumptions |-> <<>>], <<>>)
        ELSE Routed(ExecuteBody(pack, context))

\* execute_artifacts.  The telemetry events of the result (a fresh correlation
\* id and the time of day) are left out.
execute_artifacts(pack, context) ==
    LET required == required_paths(pack)
        missing == missing_required_fields(context, required)
    IN  IF missing # <<>>
        THEN Responded([needs_context |-> TRUE, missing_fields |-> missing,
                        assumptions |-> <<>>], <<>>)
        ELSE Routed(ExecuteBody(pack, context))

\* validate_outputs: the quality gates over the outputs
validate_outputs(pack, context, outputs) ==
    Invocation(pack, validate, [context |-> context, outputs |-> outputs], TRUE,
               [passed |-> FALSE, gates |-> 4])

\* the describe branch
DescribeBranch(pack) ==
    Responded([pack_id |-> pack.pack_id, manifest_of |-> pack.root], <<>>)

\* the requirements branch
RequirementsBranch(pack) ==
    Responded([required_fields |-> required_paths(pack), recommended_fields |-> 5], <<>>)

\* variant: the plan is generated when the first required path is present
PlanBranchFirstOnly(pack, arguments) ==
    IF ~IsDict(arguments) THEN Fault("plan expects a JSON object", <<>>)
    ELSE LET required == required_paths(pack)
             missing == missing_required_fields(arguments,
                            IF required = <<>> THEN <<>> ELSE <<required[1]>>)
         IN  IF missing # <<>>
             THEN Responded([needs_context |-> TRUE, missing_fields |-> missing,
                             assumptions |-> <<>>, plan_steps |-> <<>>], <<>>)
             ELSE Routed(PlanBody(pack, arguments))

\* the plan branch
PlanBranch(pack, arguments) ==
    IF ~IsDict(arguments) THEN Fault("plan expects a JSON object", <<>>)
    ELSE LET required == required_paths(pack)
             missing == missing_required_fields(arguments, required)
         IN  IF missing # <<>>
             THEN Responded([needs_context |-> TRUE, missing_fields |-> missing,
                             assumptions |-> <<>>, plan_steps |-> <<>>], <<>>)
             ELSE Routed(PlanBody(pack, arguments))

\* variant: the execute branch generates the artifacts without the check
ExecuteBranchUnchecked(pack, arguments) ==
    IF ~IsDict(arguments) THEN Fault("execute expects a JSON object", <<>>)
    ELSE Routed(ExecuteBody(pack, arguments))

\* the execute branch
ExecuteBranch(pack, arguments) ==
    IF ~IsDict(arguments) THEN Fault("execute expects a JSON object", <<>>)
    ELSE execute_artifacts(pack, arguments)

\* variant: the validate branch checks the required paths of its context
ValidateBranchChecksContext(pack, arguments) ==
    IF ~IsDict(arguments) THEN Fault("validate expects {context, outputs}", <<>>)
    ELSE LET ctx == DictGet(arguments, kcontext)
             out == DictGet(arguments, koutputs)
         IN  IF ~IsDict(ctx) \/ ~IsDict(out)
             THEN Fault("validate requires context and outputs as objects", <<>>)
             ELSE IF missing_required_fields(ctx, required_paths(pack)) # <<>>
             THEN Responded([needs_context |-> TRUE,
                             missing_fields |-> missing_required_fields(ctx, required_paths(pack)),
                             assumptions |-> <<>>], <<>>)
             ELSE Routed(validate_outputs(pack, ctx, out))

\* the validate branch
ValidateBranch(pack, arguments) ==
    IF ~IsDict(arguments) THEN Fault("validate expects {context, outputs}", <<>>)
    ELSE LET ctx == DictGet(arguments, kcontext)
             out == DictGet(arguments, koutputs)
         IN  IF ~IsDict(ctx) \/ ~IsDict(out)
             THEN Fault("validate requires context and outputs as objects", <<>>)
             ELSE Routed(validate_outputs(pack, ctx, out))

\* variant: the requirements branch runs the check of the plan branch first
MethodBranchChecksRequirements(pack, method, arguments) ==
    IF method = describe THEN DescribeBranch(pack)
    ELSE IF method = requirements
    THEN (IF IsDict(arguments)
             /\ missing_required_fields(arguments, required_paths(pack)) # <<>>
          THEN PlanBranch(pack, arguments)
          ELSE RequirementsBranch(pack))
    ELSE IF method = plan THEN PlanBranch(pack, arguments)
    ELSE IF method = execute THEN ExecuteBranch(pack, arguments)
    ELSE IF method = validate THEN ValidateBranch(pack, arguments)
    ELSE Fault("Unhandled tool method", <<>>)

\* handle_call_tool after the pack was found: the branch of the method
MethodBranch(pack, method, arguments) ==
    IF method = describe THEN DescribeBranch(pack)
    ELSE IF method = requirements THEN RequirementsBranch(pack)
    ELSE IF method = plan THEN PlanBranch(pack, arguments)
    ELSE IF method = execute THEN ExecuteBranch(pack, arguments)
    ELSE IF method = validate THEN ValidateBranch(pack, arguments)
    ELSE Fault("Unhandled tool method", <<>>)

-----------------------------------------------------------------------------
(* The registry and the calls as a state machine *)

\* the packs directory: exists is FALSE when it is missing or not a directory;
\* dirs is sorted(packs_dir.iterdir())
NoDisk == [exists |-> FALSE, dirs |-> <<>>]

Disk(dirs) == [exists |-> TRUE, dirs |-> dirs]

\* no call is being handled
NoCall == [pc |-> "idle"]

\* no load() is running beside the calls; old_packs and old_tools are the pack
\* map and the catalog as the latest such load() found them
NoLoader == [pc |-> "idle", i |-> 0, reloads |-> 0, old_packs |-> <<>>, old_tools |-> EmptyMap]

\* PackRegistry.__init__, before main() calls load()
RegistryInit ==
    /\ disk = NoDisk
    /\ packs = <<>>
    /\ tools = EmptyMap
    /\ load_result = NotLoaded
    /\ serving = FALSE
    /\ call = NoCall
    /\ loader = NoLoader

\* load() with the packs directory as d.  The first load is the one of main():
\* when it raises, the process ends before it serves anything.
Load(d) ==
    /\ serving \/ load_result.status = "none"
    /\ call.pc = "idle"
    /\ loader.pc = "idle"
    /\ disk' = d
    /\ IF ~d.exists
       THEN /\ load_result' = LoadError("no_packs_dir", 0, "")
            /\ UNCHANGED <<packs, tools>>
       ELSE LET r == LoadLoop(packs, d.dirs, 1)
            IN  /\ packs' = r.packs
                /\ load_result' = r.result
                /\ tools' = IF r.result.status = "ok" THEN build_tools(r.packs) ELSE tools
    /\ serving' = (serving \/ load_result'.status = "ok")
    /\ UNCHANGED <<call, loader, pure_vars>>

\* A call is handled in the steps of handle_call_tool: received, the name
\* decoded, the pack fetched, the branch of the method run, the outcome returned.
\* Nothing awaits between them, so on the event loop of main() no load() runs
\* while a call is being handled.

\* the call arrives
Receive(name, arguments) ==
    /\ serving
    /\ call.pc = "idle"
    /\ call' = [pc |-> "received", name |-> name, arguments |-> arguments]
    /\ UNCHANGED <<disk, packs, tools, load_result, serving, loader, pure_vars>>

\* parsed = parse_pack_tool_name(name, registry)
Decode ==
    /\ call.pc = "received"
    /\ LET parsed == parse_pack_tool_name(call.name, PackIds(packs))
       IN  call' = IF parsed = None
                   THEN [pc |-> "done", name |-> call.name, arguments |-> call.arguments,
                         seen_ids |-> PackIds(packs)]
                        @@ Fault("Unknown tool", <<>>)
                   ELSE [pc |-> "decoded", name |-> call.name, arguments |-> call.arguments,
                         seen_ids |-> PackIds(packs),
                         pack_id |-> parsed[1], method |-> parsed[2]]
    /\ UNCHANGED <<disk, packs, tools, load_result, serving, loader, pure_vars>>

\* pack = registry.packs.get(pack_id)
GetPack ==
    /\ call.pc = "decoded"
    /\ call' = IF PacksHas(packs, call.pack_id)
               THEN [pc |-> "found", name |-> call.name, arguments |-> call.arguments,
                     seen_ids |-> call.seen_ids,
                     pack_id |-> call.pack_id, method |-> call.method,
                     pack |-> PacksGet(packs, call.pack_id)]
               ELSE [pc |-> "done", name |-> call.name, arguments |-> call.arguments,
                     seen_ids |-> call.seen_ids]
                    @@ Fault("Unknown pack_id", <<>>)
    /\ UNCHANGED <<disk, packs, tools, load_result, serving, loader, pure_vars>>

\* variant: a pack whose call ended in a fault is dropped from the pack map
DispatchDropsFaulty ==
    /\ call.pc = "found"
    /\ call' = [pc |-> "done", name |-> call.name, arguments |-> call.arguments,
                seen_ids |-> call.seen_ids,
                pack_id |-> call.pack_id, method |-> call.method, pack |-> call.pack]
               @@ MethodBranch(call.pack, call.method, call.arguments)
    /\ packs' = IF call'.state = "fault"
                THEN SelectSeq(packs, LAMBDA q : q.pack_id # call.pack_id)
                ELSE packs
    /\ UNCHANGED <<disk, tools, load_result, serving, loader, pure_vars>>

\* the branch of the method, to its return or raise
Dispatch ==
    /\ call.pc = "found"
    /\ call' = [pc |-> "done", name |-> call.name, arguments |-> call.arguments,
                seen_ids |-> call.seen_ids,
                pack_id |-> call.pack_id, method |-> call.method, pack |-> call.pack]
               @@ MethodBranch(call.pack, call.method, call.arguments)
    /\ UNCHANGED <<disk, packs, tools, load_result, serving, loader, pure_vars>>

\* the outcome goes back to the caller
Return ==
    /\ call.pc = "done"
    /\ call' = NoCall
    /\ UNCHANGED <<disk, packs, tools, load_result, serving, loader, pure_vars>>

\* handle_list_tools: the catalog as the caller gets it
ListTools ==
    /\ serving
    /\ call.pc = "idle"
    /\ call' = [pc |-> "done", listing |-> list_tools(tools)]
               @@ Responded(NoResponse, <<>>)
    /\ UNCHANGED <<disk, packs, tools, load_result, serving, loader, pure_vars>>

\* load() run again beside the calls (from another thread), in the steps in
\* which it writes self.packs and self.tools.  It begins: the directory is listed.
ReloadStart(d) ==
    /\ serving
    /\ loader.pc = "idle"
    /\ loader.reloads < MaxReloads
    /\ disk' = d
    /\ IF ~d.exists
       THEN /\ load_result' = LoadError("no_packs_dir", 0, "")
            /\ loader' = [loader EXCEPT !.reloads = @ + 1,
                                        !.old_packs = packs, !.old_tools = tools]
       ELSE /\ load_result' = LoadRunning
            /\ loader' = [pc |-> "scan", i |-> 1, reloads |-> loader.reloads + 1,
                          old_packs |-> packs, old_tools |-> tools]
    /\ UNCHANGED <<packs, tools, serving, call, pure_vars>>

\* one iteration of the for loop of load(): self.packs[pack.pack_id] = pack
ReloadScan ==
    /\ loader.pc = "scan"
    /\ loader.i <= Len(disk.dirs)
    /\ LET entry == disk.dirs[loader.i]
       IN  IF ~entry.has_manifest
           THEN /\ loader' = [loader EXCEPT !.i = @ + 1]
                /\ UNCHANGED <<packs, load_result>>
           ELSE IF FirstMissingFile(entry) # ""
           THEN /\ loader' = [loader EXCEPT !.pc = "idle", !.i = 0]
                /\ load_result' = LoadError("missing_file", loader.i, FirstMissingFile(entry))
                /\ UNCHANGED packs
           ELSE /\ packs' = PacksSet(packs, Pack(loader.i, entry))
                /\ loader' = [loader EXCEPT !.i = @ + 1]
                /\ UNCHANGED load_result
    /\ UNCHANGED <<disk, tools, serving, call, pure_vars>>

\* _build_tools begins: self.tools.clear()
ReloadClear ==
    /\ loader.pc = "scan"
    /\ loader.i > Len(disk.dirs)
    /\ tools' = EmptyMap
    /\ loader' = [loader EXCEPT !.pc = "build", !.i = 1]
    /\ UNCHANGED <<disk, packs, load_result, serving, call, pure_vars>>

\* one iteration of the for loop of _build_tools: the five tools of a pack
ReloadBuild ==
    /\ loader.pc = "build"
    /\ loader.i <= Len(packs)
    /\ tools' = BuildPackTools(tools, packs[loader.i], 1)
    /\ loader' = [loader EXCEPT !.i = @ + 1]
    /\ UNCHANGED <<disk, packs, load_result, serving, call, pure_vars>>

\* load() returns
ReloadDone ==
    /\ loader.pc = "build"
    /\ loader.i > Len(packs)
    /\ load_result' = LoadOk
    /\ loader' = [loader EXCEPT !.pc = "idle", !.i = 0]
    /\ UNCHANGED <<disk, packs, tools, serving, call, pure_vars>>

-----------------------------------------------------------------------------
(* Inputs of the state machine *)

\* names of the entries of the packs directory, in sorted order
DirNames == 1..2

id_ab == <<"a", ".", "b">>

id_a_b == <<"a", "_", "b">>

id_c == <<"c">>

ka == <<"a">>

kb == <<"b">>

kx == <<"x">>

ky == <<"y">>

\* a context schema that requires nothing
NoRequired == Schema("object", <<>>, EmptyMap)

\* a context schema with the required paths $.a, $.a.x and $.b
RequiresAB == Schema("object", <<ka, kb>>, ka :> Schema("object", <<kx>>, EmptyMap))

LastFile == RequiredFiles[Len(RequiredFiles)]

\* what an entry of the packs directory may be: not a pack directory, a
\* complete pack directory, or one that lacks the last file load() checks
DirEntries ==
    {NoPackDir,
     PackDir(id_ab, RequiresAB, AllFiles),
     PackDir(id_a_b, NoRequired, AllFiles),
     PackDir(id_c, RequiresAB, AllFiles \ {LastFile})}

Disks == {NoDisk} \cup {Disk(dirs) : dirs \in [DirNames -> DirEntries]}

\* tool names of calls: the five tools of the token a_b, a tool of a pack that
\* is never registered, a name followed by a line break, and an unknown kind
CallNames ==
    {make_tool_name(id_ab, m) : m \in Methods} \cup
    {make_tool_name(id_c, plan),
     make_tool_name(id_ab, plan) \o <<Newline>>,
     PackPrefix \o id_a_b \o Separator \o <<"r", "u", "n">>}

\* arguments of calls: contexts that are complete for RequiresAB, or lack a
\* path, or hold null or a scalar on the way; a value that is not an object;
\* no arguments; arguments of validate
CallArguments ==
    {JDict(EmptyMap),
     JNull,
     JDict((ka :> JDict(kx :> JScalar)) @@ (kb :> JScalar)),
     JDict(ka :> JDict(kx :> JScalar)),
     JDict((ka :> JDict(kx :> JNull)) @@ (kb :> JScalar)),
     JDict((ka :> JScalar) @@ (kb :> JScalar)),
     JDict((ka :> JDict(kx :> JScalar)) @@ (kb :> JScalar) @@ (kproduct :> JScalar)),
     JScalar,
     JDict((kcontext :> JDict(EmptyMap)) @@ (koutputs :> JDict(EmptyMap))),
     JDict((kcontext :> JDict(EmptyMap)) @@ (koutputs :> JScalar))}

-----------------------------------------------------------------------------
(* Inputs of the pure functions *)

\* schemas of a nested property
LeafSchema == Schema("object", <<ky>>, EmptyMap)

SubSchemas ==
    {NotADict} \cup
    {Schema(t, r, p) : t \in {"object", "string", "absent"},
                       r \in StringsUpTo({kx, ky}, MaxRequired),
                       p \in {EmptyMap, kx :> LeafSchema}}

\* context schemas: JSON objects
ContextSchemas ==
    {Schema(t, r, p) :
        t \in {"object", "string"},
        r \in StringsUpTo({ka, kb}, MaxRequired),
        p \in {f \in PartialMaps({ka, kb}, SubSchemas) :
                 kb \in DOMAIN f => f[kb] \in {NotADict, Schema("object", <<kx>>, EmptyMap)}}}

NestedValues ==
    {JNull, JScalar} \cup {JDict(m) : m \in PartialMaps({kx, ky}, {JNull, JScalar})}

Contexts ==
    {JNull, JScalar} \cup
    {JDict(m) : m \in {f \in PartialMaps({ka, kb}, NestedValues) :
                         kb \in DOMAIN f => ~IsDict(f[kb])}}

Path(keys) == Root \o <<Dot>> \o keys

P_a == <<"$", ".", "a">>

P_b == <<"$", ".", "b">>

P_ax == <<"$", ".", "a", ".", "x">>

P_ay == <<"$", ".", "a", ".", "y">>

P_axy == <<"$", ".", "a", ".", "x", ".", "y">>

\* a path without the root marker
P_unrooted == <<"a", ".", "x">>

PathPool == {P_a, P_b, P_ax, P_ay, P_axy, P_unrooted}

-----------------------------------------------------------------------------
(* The pure functions applied to drawn inputs *)

NoInput == [fn |-> "none"]

Pending == [done |-> FALSE]

Result(v) == [done |-> TRUE, value |-> v]

RegistryIdle == RegistryInit

CodecInit ==
    /\ RegistryIdle
    /\ pure_in \in {[fn |-> "codec", pack_id |-> p, method |-> k] :
                        p \in StringsUpTo(IdAlphabet, MaxIdLen), k \in Methods}
    /\ pure_out = Pending

\* encode
CodecEncode ==
    /\ pure_in.fn = "codec"
    /\ ~pure_out.done
    /\ pure_out' = [done |-> TRUE, decoded |-> FALSE,
                    name |-> make_tool_name(pure_in.pack_id, pure_in.method)]
    /\ UNCHANGED <<pure_in, registry_vars>>

\* decode against a registry whose only pack is pack_id
CodecDecode ==
    /\ pure_in.fn = "codec"
    /\ pure_out.done
    /\ ~pure_out.decoded
    /\ pure_out' = [pure_out EXCEPT !.decoded = TRUE] @@
                   [parsed |-> parse_pack_tool_name(pure_out.name, <<pure_in.pack_id>>)]
    /\ UNCHANGED <<pure_in, registry_vars>>

CodecNext == CodecEncode \/ CodecDecode

SpecCodec == CodecInit /\ [][CodecNext]_vars

\* tool names to decode: a tool name, or one with another kind, a token with
\* a character outside the class, no token, a character before it or after
\* it, or line breaks after it
DecodeNames ==
    {pre \o PackPrefix \o tok \o Separator \o k \o suf :
        pre \in {<<>>, <<"x">>},
        tok \in {sanitize_tool_token(id_ab), id_ab, id_c, <<>>},
        k \in Methods \cup {<<"r", "u", "n">>},
        suf \in {<<>>, <<"x">>, <<Newline>>, <<Newline, Newline>>}}

\* the keys of registry.packs, in insertion order
DecodePackIds ==
    {ids \in StringsUpTo({id_ab, id_a_b, id_c}, MaxPackIds) :
        \A i, j \in 1..Len(ids) : ids[i] = ids[j] => i = j}

DecodeInit ==
    /\ RegistryIdle
    /\ pure_in \in {[fn |-> "decode", name |-> n, pack_ids |-> ids] :
                        n \in DecodeNames, ids \in DecodePackIds}
    /\ pure_out = Pending

\* parse_pack_tool_name(name, registry)
DecodeApply ==
    /\ pure_in.fn = "decode"
    /\ ~pure_out.done
    /\ pure_out' = Result(parse_pack_tool_name(pure_in.name, pure_in.pack_ids))
    /\ UNCHANGED <<pure_in, registry_vars>>

DecodeNext == DecodeApply

SpecDecode == DecodeInit /\ [][DecodeNext]_vars

PathsInit ==
    /\ RegistryIdle
    /\ pure_in \in
         {[fn |-> "extract", schema |-> s] : s \in ContextSchemas}
         \cup {[fn |-> "missing", context |-> c, required_paths |-> ps] :
                 c \in Contexts, ps \in StringsUpTo(PathPool, MaxPaths)}
    /\ pure_out = Pending

ExtractApply ==
    /\ pure_in.fn = "extract"
    /\ ~pure_out.done
    /\ pure_out' = Result(dotted_required_paths(pure_in.schema, Root))
    /\ UNCHANGED <<pure_in, registry_vars>>

MissingApply ==
    /\ pure_in.fn = "missing"
    /\ ~pure_out.done
    /\ pure_out' = Result(missing_required_fields(pure_in.context, pure_in.required_paths))
    /\ UNCHANGED <<pure_in, registry_vars>>

PathsNext == ExtractApply \/ MissingApply

SpecPaths == PathsInit /\ [][PathsNext]_vars

RegistryNext ==
    \/ \E d \in Disks : Load(d)
    \/ \E name \in CallNames, arguments \in CallArguments : Receive(name, arguments)
    \/ Decode
    \/ GetPack
    \/ Dispatch
    \/ Return
    \/ ListTools

Init ==
    /\ RegistryInit
    /\ pure_in = NoInput
    /\ pure_out = Pending

Next == RegistryNext

Spec == Init /\ [][Next]_vars

\* calls with one value of the arguments
ReloadCallArguments == {JDict(EmptyMap)}

\* the load() of main(), then load() run again beside the calls
ReloadNext ==
    \/ \E d \in Disks : load_result.status = "none" /\ Load(d)
    \/ \E d \in Disks : ReloadStart(d)
    \/ ReloadScan
    \/ ReloadClear
    \/ ReloadBuild
    \/ ReloadDone
    \/ \E name \in CallNames, arguments \in ReloadCallArguments : Receive(name, arguments)
    \/ Decode
    \/ GetPack
    \/ Dispatch
    \/ Return
    \/ ListTools

SpecReload == Init /\ [][ReloadNext]_vars

\* packs directories and arguments of the calls followed to their end
LiveDisks ==
    {Disk([i \in DirNames |-> NoPackDir]),
     Disk([i \in DirNames |-> IF i = 1 THEN PackDir(id_ab, RequiresAB, AllFiles)
                                       ELSE NoPackDir]),
     Disk([i \in DirNames |-> IF i = 1 THEN PackDir(id_ab, RequiresAB, AllFiles)
                                       ELSE PackDir(id_c, RequiresAB, AllFiles \ {LastFile})])}

LiveArguments ==
    {JDict(EmptyMap),
     JScalar,
     JDict((ka :> JDict(kx :> JScalar)) @@ (kb :> JScalar)),
     JDict((ka :> JDict(kx :> JScalar)) @@ (kb :> JScalar) @@ (kproduct :> JScalar)),
     JDict((kcontext :> JDict(EmptyMap)) @@ (koutputs :> JDict(EmptyMap)))}

LiveNext ==
    \/ \E d \in LiveDisks : Load(d)
    \/ \E name \in CallNames, arguments \in LiveArguments : Receive(name, arguments)
    \/ Decode
    \/ GetPack
    \/ Dispatch
    \/ Return
    \/ ListTools

\* handle_call_tool is straight-line code that never awaits: a call that was
\* received is handled to its end
SpecLive ==
    /\ Init /\ [][LiveNext]_vars
    /\ WF_vars(Decode) /\ WF_vars(GetPack) /\ WF_vars(Dispatch) /\ WF_vars(Return)

-----------------------------------------------------------------------------
(* Properties of the identifier codec *)

\* C1: for every pack identifier p and operation kind k, decoding the encoded
\* tool name against a registry whose only pack is p returns exactly (p, k).
C1_RoundTrip ==
    (pure_in.fn = "codec" /\ pure_out.done /\ pure_out.decoded)
        => pure_out.parsed = <<pure_in.pack_id, pure_in.method>>

-----------------------------------------------------------------------------
(* Properties of the requirement extractor and the context inspector *)

ObjectTyped(schema) == schema.isdict /\ schema.type = "object"

\* the schema property of key adds no path: absent, not an object schema, or
\* an object schema that requires nothing
AddsNoPath(schema, key) ==
    \/ key \notin DOMAIN schema.properties
    \/ ~ObjectTyped(schema.properties[key])
    \/ schema.properties[key].required = <<>>

\* required = [a, b], properties.a an object schema with required = [x], and
\* nothing else nested
ExampleSchema(schema) ==
    /\ schema.type = "object"
    /\ schema.required = <<ka, kb>>
    /\ ka \in DOMAIN schema.properties
    /\ ObjectTyped(schema.properties[ka])
    /\ schema.properties[ka].required = <<kx>>
    /\ AddsNoPath(schema.properties[ka], kx)
    /\ AddsNoPath(schema, kb)

\* C8 as stated: the example schema yields [$.a, $.b, $.a.x] in that order.
C8_SiblingsFirst ==
    (pure_in.fn = "extract" /\ pure_out.done /\ ExampleSchema(pure_in.schema))
        => pure_out.value = <<P_a, P_b, P_ax>>

\* C8 amended: the example schema yields [$.a, $.a.x, $.b] in that order: the
\* nested path $.a.x follows its parent $.a and precedes the sibling $.b.
C8_NestedBeforeSibling ==
    (pure_in.fn = "extract" /\ pure_out.done /\ ExampleSchema(pure_in.schema))
        => pure_out.value = <<P_a, P_ax, P_b>>

C8_Witness ==
    /\ pure_in.fn = "extract"
    /\ pure_out.done
    /\ ExampleSchema(pure_in.schema)
    /\ Len(pure_out.value) = 3

RECURSIVE Flatten(_)
Flatten(seqs) == IF seqs = <<>> THEN <<>> ELSE Head(seqs) \o Flatten(Tail(seqs))

\* the depth-first walk the claim describes
RECURSIVE DepthFirstWalk(_, _)
DepthFirstWalk(schema, prefix) ==
    IF schema.type # "object" THEN <<>>
    ELSE Flatten([i \in 1..Len(schema.required) |->
            LET key == schema.required[i]
                path == prefix \o <<Dot>> \o key
            IN  <<path>> \o
                (IF key \in DOMAIN schema.properties /\ ObjectTyped(schema.properties[key])
                 THEN DepthFirstWalk(schema.properties[key], path)
                 ELSE <<>>)])

\* C9: dotted_required_paths returns the empty list for a schema whose type is
\* not object; otherwise, for each key of required in source order, prefix.key
\* followed at once by the paths of properties[key] when that is an
\* object-typed schema; nothing is deduplicated, nothing else is emitted.
C9_DepthFirst ==
    (pure_in.fn = "extract" /\ pure_out.done)
        => /\ pure_out.value = DepthFirstWalk(pure_in.schema, Root)
           /\ pure_in.schema.type # "object" => pure_out.value = <<>>

\* a repeated key with a nested required key: parent, child, parent, child
C9_Witness ==
    /\ pure_in.fn = "extract"
    /\ pure_out.done
    /\ pure_in.schema.required = <<ka, ka>>
    /\ pure_out.value = <<P_a, P_ax, P_a, P_ax>>

\* every node of a JSON value with the keys leading to it
RECURSIVE Nodes(_, _)
Nodes(v, keys) ==
    {<<keys, v>>} \cup
    (IF IsDict(v) THEN UNION {Nodes(v.d[k], Append(keys, k)) : k \in DOMAIN v.d} ELSE {})

\* "$.k1.k2..." for a non-empty sequence of keys
FormatPath(keys) == Root \o Flatten([i \in 1..Len(keys) |-> <<Dot>> \o keys[i]])

\* path addresses a node of context, below the root, whose value is not null
ResolvesNonNull(context, path) ==
    \E n \in Nodes(context, <<>>) :
        /\ n[1] # <<>>
        /\ FormatPath(n[1]) = path
        /\ n[2].t # "null"

\* C10: missing_required_fields returns exactly the subsequence of the required
\* paths (same order, same multiplicity) that do not resolve through nested
\* dicts to a non-null value.
C10_MissingSubsequence ==
    (pure_in.fn = "missing" /\ pure_out.done)
        => pure_out.value =
             SelectSeq(pure_in.required_paths,
                       LAMBDA p : ~ResolvesNonNull(pure_in.context, p))

\* context {a: {x: 1}} against [$.a.x, $.a.y, $.b] yields [$.a.y, $.b]
C10_Witness ==
    /\ pure_in.fn = "missing"
    /\ pure_out.done
    /\ pure_in.context = JDict(ka :> JDict(kx :> JScalar))
    /\ pure_in.required_paths = <<P_ax, P_ay, P_b>>
    /\ pure_out.value = <<P_ay, P_b>>

-----------------------------------------------------------------------------
(* Properties of the registry *)

\* the pack directories of the latest load()
PackDirsOnDisk == {i \in DOMAIN disk.dirs : disk.dirs[i].has_manifest}

\* two pack directories declare distinct identifiers with the same token
TokensCollideOnDisk ==
    \E i, j \in PackDirsOnDisk :
        /\ disk.dirs[i].pack_id # disk.dirs[j].pack_id
        /\ sanitize_tool_token(disk.dirs[i].pack_id)
             = sanitize_tool_token(disk.dirs[j].pack_id)

\* C2: a load() that finds two packs with distinct declared identifiers and
\* equal sanitized tokens fails; it never completes with the two merged.
C2_CollisionFailsLoad ==
    (disk.exists /\ TokensCollideOnDisk) => load_result.status # "ok"

\* C5: after every successful load() the catalog holds exactly one tool
\* descriptor per (registered pack, operation kind): five per pack, under
\* pairwise distinct names.
C5_OneToolPerPackAndKind ==
    load_result.status = "ok" =>
        /\ Cardinality(list_tools(tools)) = Cardinality(Methods) * Len(packs)
        /\ \A t1, t2 \in list_tools(tools) : t1.name = t2.name => t1 = t2
        /\ \A i \in 1..Len(packs), m \in Methods :
              \E t \in list_tools(tools) : t.pack_id = packs[i].pack_id /\ t.method = m

\* C6: a load() that fails for a missing required file, in a registry that is
\* serving, leaves the pack map and the tool catalog as they were.
C6_FailedLoadChangesNothing ==
    [][(serving /\ load_result'.status = "missing_file")
          => (packs' = packs /\ tools' = tools)]_vars

-----------------------------------------------------------------------------
(* Properties of the calls *)

\* the call was handled to its end by the branch of a plan or execute tool,
\* with a JSON object as arguments
PlanOrExecuteDone ==
    /\ call.pc = "done"
    /\ "pack" \in DOMAIN call
    /\ call.method \in {plan, execute}
    /\ IsDict(call.arguments)

\* the arguments hold a non-null value at every required path of the pack
ContextComplete ==
    \A i \in 1..Len(required_paths(call.pack)) :
        ResolvesNonNull(call.arguments, required_paths(call.pack)[i])

\* C3: a plan or execute call whose context lacks, or has null at, a required
\* path of the pack's context schema never invokes the provider and is
\* answered needs_context = true with missing_fields equal to
\* missing_required_fields(arguments, pack.required_paths()).
C3_IncompleteNeverRouted ==
    (PlanOrExecuteDone /\ ~ContextComplete) =>
        /\ call.state = "responded"
        /\ call.provider = <<>>
        /\ call.response.needs_context = TRUE
        /\ call.response.missing_fields
             = missing_required_fields(call.arguments, required_paths(call.pack))

\* a plan call with context {a: {x: 1}} on the pack that requires $.a, $.a.x, $.b
C3_Witness ==
    /\ PlanOrExecuteDone
    /\ call.method = plan
    /\ call.arguments = JDict(ka :> JDict(kx :> JScalar))
    /\ call.response.needs_context = TRUE
    /\ call.response.missing_fields = <<P_b>>

-----------------------------------------------------------------------------
(* Properties of a reload beside the calls *)

\* the complete generations of the registry: the pack map and the catalog as
\* the latest reload found them and, when that reload completes, as it leaves
\* them; before any reload, the registry as it is
Generations ==
    IF loader.reloads = 0 THEN {[packs |-> packs, tools |-> tools]}
    ELSE {[packs |-> loader.old_packs, tools |-> loader.old_tools]} \cup
         (IF disk.exists /\ LoadLoop(loader.old_packs, disk.dirs, 1).result.status = "ok"
          THEN {[packs |-> LoadLoop(loader.old_packs, disk.dirs, 1).packs,
                 tools |-> build_tools(LoadLoop(loader.old_packs, disk.dirs, 1).packs)]}
          ELSE {})

\* C7: with load() run again while calls are in flight, every call resolves
\* its tool name and its pack against one complete generation (the old pack
\* map and catalog, or the new ones), and no catalog handed to a caller is an
\* emptied or half-rebuilt one.
C7_OneGenerationPerCall ==
    /\ "seen_ids" \in DOMAIN call =>
          \E g \in Generations :
              /\ call.seen_ids = PackIds(g.packs)
              /\ "pack" \in DOMAIN call =>
                    /\ PacksHas(g.packs, call.pack_id)
                    /\ PacksGet(g.packs, call.pack_id) = call.pack
    /\ "listing" \in DOMAIN call =>
          \E g \in Generations : call.listing = list_tools(g.tools)

-----------------------------------------------------------------------------
(* Properties of the branches that take no context *)

\* the call was handled to its end by the describe or the requirements branch
DescribeOrRequirementsDone ==
    /\ call.pc = "done"
    /\ "pack" \in DOMAIN call
    /\ call.method \in {describe, requirements}

\* C11: a describe or requirements call on a registered pack, whatever its
\* arguments, is answered from the pack alone: no fault, no needs-context
\* response, no missing fields, no provider, and the answer is the one the
\* pack gives for any other arguments.
C11_NoContextCheck ==
    DescribeOrRequirementsDone =>
        /\ call.state = "responded"
        /\ call.provider = <<>>
        /\ "needs_context" \notin DOMAIN call.response
        /\ "missing_fields" \notin DOMAIN call.response
        /\ call.response = IF call.method = describe
                           THEN DescribeBranch(call.pack).response
                           ELSE RequirementsBranch(call.pack).response

\* a requirements call without any required field, on the pack that requires paths
C11_Witness ==
    /\ DescribeOrRequirementsDone
    /\ call.method = requirements
    /\ required_paths(call.pack) # <<>>
    /\ call.arguments = JDict(EmptyMap)
    /\ call.state = "responded"
    /\ Len(packs) > 1

-----------------------------------------------------------------------------
(* Properties of the validate branch *)

\* the call was handled to its end by the validate branch
ValidateDone ==
    /\ call.pc = "done"
    /\ "pack" \in DOMAIN call
    /\ call.method = validate

\* the arguments are an object whose context and outputs entries are objects
ValidateShapeOk ==
    /\ IsDict(call.arguments)
    /\ IsDict(DictGet(call.arguments, kcontext))
    /\ IsDict(DictGet(call.arguments, koutputs))

\* C12: a validate call is routed to the provider exactly when its arguments
\* are an object with objects as context and outputs; otherwise it ends in a
\* fault without the provider.  A routed call is never answered needs-context,
\* whatever required path its context lacks.
C12_ValidateRouting ==
    ValidateDone =>
        IF ValidateShapeOk
        THEN /\ Len(call.provider) = 1
             /\ call.provider[1].method = validate
             /\ call.provider[1].pack_id = call.pack.pack_id
             /\ call.provider[1].arguments
                  = [context |-> DictGet(call.arguments, kcontext),
                     outputs |-> DictGet(call.arguments, koutputs)]
             /\ call.provider[1].returned =>
                   /\ call.state = "responded"
                   /\ call.response = call.provider[1].result
                   /\ "needs_context" \notin DOMAIN call.response
             /\ ~call.provider[1].returned =>
                   /\ call.state = "fault"
                   /\ call.error = call.provider[1].result
        ELSE /\ call.state = "fault"
             /\ call.provider = <<>>

\* a validate call routed with a context that lacks required paths of its pack
C12_Witness ==
    /\ ValidateDone
    /\ ValidateShapeOk
    /\ missing_required_fields(DictGet(call.arguments, kcontext),
                               required_paths(call.pack)) # <<>>
    /\ Len(call.provider) = 1
    /\ call.state = "responded"

-----------------------------------------------------------------------------
(* Properties of the decoding of tool names *)

\* the tokens t and kinds k for which name is pack__t__k, character for
\* character, with t a non-empty string of token characters
ShapesOf(name) ==
    {tk \in {<<SubSeq(name, Len(PackPrefix) + 1, Len(name) - Len(Separator) - Len(k)), k>> :
                 k \in {m \in Methods : Len(name) > Len(PackPrefix) + Len(Separator) + Len(m)}} :
        /\ name = PackPrefix \o tk[1] \o Separator \o tk[2]
        /\ \A i \in 1..Len(tk[1]) : tk[1][i] \in TokenChars}

\* name has the shape of a tool name and its token is the sanitized form of
\* one of the identifiers
NamesAToolOf(name, pack_ids) ==
    \E tk \in ShapesOf(name) :
        \E i \in 1..Len(pack_ids) : sanitize_tool_token(pack_ids[i]) = tk[1]

\* the call has been decoded, or has ended
CallDecoded == call.pc \in {"decoded", "found", "done"} /\ "seen_ids" \in DOMAIN call

\* C13: a call whose name has not the shape pack__<token>__<kind>, or whose
\* token is the sanitized form of no registered identifier, ends in the
\* unknown-tool fault, with no pack fetched, no provider and no response.
C13_UnknownToolFault ==
    (CallDecoded /\ ~NamesAToolOf(call.name, call.seen_ids)) =>
        /\ call.pc = "done"
        /\ call.state = "fault"
        /\ call.error = "Unknown tool"
        /\ call.provider = <<>>
        /\ call.response = NoResponse
        /\ "pack" \notin DOMAIN call

-----------------------------------------------------------------------------
(* Properties of the course of a call *)

\* a tool call has ended
ToolCallDone == call.pc = "done" /\ "name" \in DOMAIN call

\* the check that goes with the kind of the call passed
KindCheckPassed ==
    IF call.method \in {plan, execute} THEN IsDict(call.arguments) /\ ContextComplete
    ELSE IF call.method = validate THEN ValidateShapeOk
    ELSE FALSE

\* the steps of a call: received, decoded, the pack fetched, ended, gone; a
\* call leaves the course early only for a fault
CallSteps ==
    call' # call =>
        /\ call.pc = "idle" => call'.pc = "received" \/ "listing" \in DOMAIN call'
        /\ call.pc = "received" =>
              call'.pc = "decoded" \/ (call'.pc = "done" /\ call'.state = "fault")
        /\ call.pc = "decoded" =>
              call'.pc = "found" \/ (call'.pc = "done" /\ call'.state = "fault")
        /\ call.pc = "found" => call'.pc = "done"
        /\ call.pc = "done" => call'.pc = "idle"

\* how a tool call ends: in a response or in a fault, never both; the provider
\* at most once, only with the pack decoded and the check of the kind passed;
\* a needs-context response without the provider
CallEnds ==
    ToolCallDone =>
        /\ call.state \in {"responded", "fault"}
        /\ call.state = "responded" <=> call.response # NoResponse
        /\ call.state = "fault" <=> call.error # ""
        /\ Len(call.provider) <= 1
        /\ call.provider # <<>> => "pack" \in DOMAIN call /\ KindCheckPassed
        /\ (call.state = "responded" /\ "needs_context" \in DOMAIN call.response
              /\ call.response.needs_context) => call.provider = <<>>

\* a fault is raised before the provider, or is the provider's own
FaultBeforeOrByProvider ==
    (ToolCallDone /\ call.state = "fault") =>
        \/ call.provider = <<>>
        \/ ~call.provider[1].returned /\ call.error = call.provider[1].result

\* a fault is raised before the provider
FaultBeforeProvider ==
    (ToolCallDone /\ call.state = "fault") => call.provider = <<>>

\* C14: every call goes from received to decoded to needs-context or routed
\* and ends, in exactly one of a response or a fault; the provider is invoked
\* at most once, after the decoding and the check of the kind; a call that
\* ends in a fault either never invoked the provider or ends in the fault the
\* provider raised.
C14_CallCourse ==
    /\ [](CallEnds /\ FaultBeforeOrByProvider)
    /\ [][CallSteps]_vars
    /\ (call.pc = "received") ~> (call.pc = "done")

\* C14 as stated: as above, but no call that ends in a fault invoked the provider
C14_FaultNeverRouted ==
    /\ [](CallEnds /\ FaultBeforeProvider)
    /\ [][CallSteps]_vars
    /\ (call.pc = "received") ~> (call.pc = "done")

\* an execute call whose provider was invoked and raised
C14_Witness ==
    /\ ToolCallDone
    /\ call.state = "fault"
    /\ Len(call.provider) = 1
    /\ call.method = execute

-----------------------------------------------------------------------------
(* Properties of the calls on the state of the registry *)

\* what handle_call_tool gives for a name and arguments on a pack map
OutcomeOf(ps, name, arguments) ==
    LET parsed == parse_pack_tool_name(name, PackIds(ps))
    IN  IF parsed = None THEN Fault("Unknown tool", <<>>)
        ELSE IF ~PacksHas(ps, parsed[1]) THEN Fault("Unknown pack_id", <<>>)
        ELSE MethodBranch(PacksGet(ps, parsed[1]), parsed[2], arguments)

\* a step of a call leaves the registry as it is
CallStepFrame ==
    call' # call =>
        /\ packs' = packs
        /\ tools' = tools
        /\ disk' = disk
        /\ load_result' = load_result
        /\ serving' = serving

\* the outcome of a tool call is the one its name and arguments have on the
\* pack map of the latest load, whatever calls went before
OutcomeFromRegistryOnly ==
    ToolCallDone =>
        /\ call.state = OutcomeOf(packs, call.name, call.arguments).state
        /\ call.error = OutcomeOf(packs, call.name, call.arguments).error
        /\ call.response = OutcomeOf(packs, call.name, call.arguments).response
        /\ call.provider = OutcomeOf(packs, call.name, call.arguments).provider

\* C15: no step of a tool call, whatever its name, arguments and outcome,
\* changes the pack map, the packs or the tool catalog, and the outcome of a
\* call depends on its name, its arguments and the registry only.
C15_CallsChangeNothing ==
    [][CallStepFrame]_vars /\ []OutcomeFromRegistryOnly

\* a call that ended in a fault on a pack of a registry with a catalog
C15_Witness ==
    /\ ToolCallDone
    /\ "pack" \in DOMAIN call
    /\ call.state = "fault"
    /\ PacksHas(packs, call.pack_id)
    /\ tools # EmptyMap

-----------------------------------------------------------------------------
(* Properties of what a load registers *)

\* the pack directories of the latest load() that lack a required file
IncompleteDirsOnDisk ==
    {i \in PackDirsOnDisk : ~(AllFiles \subseteq disk.dirs[i].files)}

\* every registered Pack holds the content of all six required files
PacksAreComplete ==
    \A i \in 1..Len(packs) : packs[i].loaded = AllFiles

\* every tool descriptor was built from a Pack that holds all six
ToolsOfCompletePacks ==
    tools' # tools =>
        \A t \in list_tools(tools') :
            \E i \in 1..Len(packs') :
                /\ packs'[i].pack_id = t.pack_id
                /\ packs'[i].root = t.root
                /\ packs'[i].loaded = AllFiles

\* a load() adds no Pack for a directory that lacks a required file
IncompleteDirAddsNothing ==
    disk' # disk =>
        \A d \in {j \in DOMAIN disk'.dirs : disk'.dirs[j].has_manifest
                                             /\ ~(AllFiles \subseteq disk'.dirs[j].files)} :
            \A i \in 1..Len(packs') :
                (packs'[i].root = d /\ packs'[i].pack_id = disk'.dirs[d].pack_id)
                    => \E k \in 1..Len(packs) : packs[k] = packs'[i]

\* C16: through any sequence of load() calls, every registered Pack was built
\* from a directory that held the manifest and all six required files when it
\* was loaded, and a directory that lacks one of the six contributes no Pack
\* and no tool descriptor.
C16_OnlyCompleteDirsRegister ==
    []PacksAreComplete /\ [][ToolsOfCompletePacks /\ IncompleteDirAddsNothing]_vars

\* a load() met a directory that lacks a file, in a registry that holds packs
C16_Witness ==
    /\ IncompleteDirsOnDisk # {}
    /\ load_result.status = "missing_file"
    /\ packs # <<>>
    /\ tools # EmptyMap

-----------------------------------------------------------------------------
(* Properties of directories that declare the same identifier *)

\* the pack directories of the latest load() whose identifier an earlier
\* directory declares too, and no later one
LastOfDuplicatesOnDisk ==
    {j \in PackDirsOnDisk :
        /\ \E i \in PackDirsOnDisk : i < j /\ disk.dirs[i].pack_id = disk.dirs[j].pack_id
        /\ \A k \in PackDirsOnDisk : k > j => disk.dirs[k].pack_id # disk.dirs[j].pack_id}

\* the pack map holds one entry for the identifier of directory j, built from j
RegisteredFrom(j) ==
    /\ Cardinality({i \in 1..Len(packs) : packs[i].pack_id = disk.dirs[j].pack_id}) = 1
    /\ PacksGet(packs, disk.dirs[j].pack_id) = Pack(j, disk.dirs[j])

\* the five tools of the identifier of directory j are those of its Pack
AdvertisedFrom(j) ==
    \A m \in Methods :
        \E t \in list_tools(tools) :
            /\ t = PackTool(Pack(j, disk.dirs[j]), m)
            /\ \A u \in list_tools(tools) :
                  (u.pack_id = t.pack_id /\ u.method = m) => u = t

\* C17: a load() of directories that declare the same identifier, each with
\* all its required files, succeeds and registers the pack of the directory sorted last among them: one entry
\* in the pack map, and its five tool descriptors, all from that directory.
C17_LaterDirectoryWins ==
    (disk.exists /\ LastOfDuplicatesOnDisk # {} /\ IncompleteDirsOnDisk = {}) =>
        /\ load_result.status = "ok"
        /\ \A j \in LastOfDuplicatesOnDisk : RegisteredFrom(j) /\ AdvertisedFrom(j)

-----------------------------------------------------------------------------
(* Properties of the catalog against the decoding *)

\* C18: after a successful load(), every tool descriptor of the catalog has a
\* name that parse_pack_tool_name decodes to the pack and the kind of that
\* descriptor.
C18_AdvertisedIsDispatched ==
    load_result.status = "ok" =>
        \A t \in list_tools(tools) :
            parse_pack_tool_name(t.name, PackIds(packs)) = <<t.pack_id, t.method>>

-----------------------------------------------------------------------------
(* Properties of a reload against the disk *)

\* the identifiers that the pack directories of the latest load() declare
IdsOnDisk == {disk.dirs[j].pack_id : j \in PackDirsOnDisk}

\* the name is a tool name whose token no identifier on disk has
NamesARemovedPack(name) ==
    /\ ShapesOf(name) # {}
    /\ \A tk \in ShapesOf(name) : \A p \in IdsOnDisk : sanitize_tool_token(p) # tk[1]

\* C19: after a successful load() the pack map holds only packs that a
\* directory on disk declares, the catalog advertises only their tools, and a
\* call to a tool name of a pack that is gone from the disk ends in the
\* unknown-tool fault.
C19_ReloadReflectsDisk ==
    load_result.status = "ok" =>
        /\ \A i \in 1..Len(packs) : packs[i].pack_id \in IdsOnDisk
        /\ \A t \in list_tools(tools) : t.pack_id \in IdsOnDisk
        /\ (ToolCallDone /\ NamesARemovedPack(call.name)) =>
              call.state = "fault" /\ call.error = "Unknown tool"

-----------------------------------------------------------------------------
(* Properties of the decoding as a function *)

\* C20: parse_pack_tool_name returns a pair (p, k) only for a name that is,
\* character for character, make_tool_name(q, k) of a registered q with the
\* sanitized token of p, with p registered and k one of the five kinds; any
\* other string gives None.
C20_DecodeSound ==
    (pure_in.fn = "decode" /\ pure_out.done /\ pure_out.value # None) =>
        /\ \E i \in 1..Len(pure_in.pack_ids) : pure_in.pack_ids[i] = pure_out.value[1]
        /\ pure_out.value[2] \in Methods
        /\ \E i \in 1..Len(pure_in.pack_ids) :
              /\ pure_in.name = make_tool_name(pure_in.pack_ids[i], pure_out.value[2])
              /\ sanitize_tool_token(pure_in.pack_ids[i])
                   = sanitize_tool_token(pure_out.value[1])

=============================================================================
